---------------------------- MODULE Spec2Model ----------------------------
(***************************************************************************)
(* A model of the port manager of xport-manager (PortManager in            *)
(* portManager.ts): enumeration of bound ports on Windows (netstat +       *)
(* tasklist) and on Unix (lsof), the process-name decoder, the             *)
(* deduplication / ordering stage and process termination.                 *)
(*                                                                         *)
(* A JavaScript string is a sequence of UTF-16 code units (naturals).      *)
(* A JavaScript number is a record [nan, val]: parseInt yields NaN or an   *)
(* integer.                                                                *)
(***************************************************************************)
EXTENDS Integers, Sequences, FiniteSets, TLC

VARIABLES
    platform,      \* os.platform()
    pc,            \* getPorts: position of the pending call
    stdout,        \* text handed to the netstat / lsof callback
    listErr,       \* err handed to the netstat / lsof callback
    uniquePorts,   \* getPortsWindows: the list handed to fillProcessNamesWindows
    taskOut,       \* text handed to the tasklist callback
    taskErr,       \* err handed to the tasklist callback
    result,        \* value the getPorts promise resolved with
    execLog,       \* commands handed to cp.exec, in order
    alive,         \* processes the operating system currently runs
    kpc,           \* killProcess: position of the pending call
    kpid,          \* killProcess: its argument
    signalled,     \* outcome of process.kill(pid, 'SIGKILL')
    fallback,      \* outcome of the fallback command's callback
    settled,       \* how the killProcess promise settled, and with what
    name,          \* unescapeName: the string under test
    once,          \* unescapeName(name)
    twice,         \* unescapeName(unescapeName(name))
    npc,           \* position of the decoder run
    ports,         \* deduplicatePorts: its argument
    deduped,       \* deduplicatePorts(ports)
    dpc            \* position of the deduplication run

portVars == <<pc, stdout, listErr, uniquePorts, taskOut, taskErr, result>>
killVars == <<alive, kpc, kpid, signalled, fallback, settled>>
nameVars == <<name, once, twice, npc>>
dedupVars == <<ports, deduped, dpc>>
vars == <<platform, execLog, portVars, killVars, nameVars, dedupVars>>

---------------------------------------------------------------------------
(* Bounds of the model. *)

\* lines of netstat / lsof output (after the lsof header)
MaxLines == 2
\* lines of tasklist output
MaxTaskLines == 2
\* length of a process name handed to unescapeName
MaxNameLen == 7
\* length of a list handed to deduplicatePorts
MaxRecords == 3
\* process ids known to the operating system
MaxPid == 3

---------------------------------------------------------------------------
(* JavaScript numbers and strings. *)

Num(n) == [nan |-> FALSE, val |-> n]
NaN == [nan |-> TRUE, val |-> 0]
IsNaN(x) == x.nan

\* the value of an array element that does not exist
Undefined == <<-1>>

At(arr, i) == IF i >= 0 /\ i < Len(arr) THEN arr[i + 1] ELSE Undefined

IsSpace(c) == c \in {9, 10, 11, 12, 13, 32}
IsDigit(c) == c >= 48 /\ c <= 57

RECURSIVE TrimStart(_)
TrimStart(s) ==
    IF s # <<>> /\ IsSpace(Head(s)) THEN TrimStart(Tail(s)) ELSE s

RECURSIVE TrimEnd(_)
TrimEnd(s) ==
    IF s # <<>> /\ IsSpace(s[Len(s)]) THEN TrimEnd(SubSeq(s, 1, Len(s) - 1)) ELSE s

Trim(s) == TrimEnd(TrimStart(s))

\* the least element of a non-empty set of indices
Least(S) == CHOOSE i \in S : \A j \in S : i <= j

\* the tokens of s from index i on, i at the start of a token
RECURSIVE SplitSpacesFrom(_, _)
SplitSpacesFrom(s, i) ==
    LET spaces == {j \in i..Len(s) : IsSpace(s[j])}
        stop == Least(spaces)
        others == {j \in stop..Len(s) : ~IsSpace(s[j])}
    IN  IF spaces = {} THEN <<SubSeq(s, i, Len(s))>>
        ELSE IF others = {} THEN <<SubSeq(s, i, stop - 1), <<>>>>
        ELSE <<SubSeq(s, i, stop - 1)>> \o SplitSpacesFrom(s, Least(others))

\* s.split(/\s+/)
SplitSpaces(s) == SplitSpacesFrom(s, 1)

RECURSIVE SplitLinesFrom(_, _)
SplitLinesFrom(s, i) ==
    LET feeds == {j \in i..Len(s) : s[j] = 10}
    IN  IF feeds = {} THEN <<SubSeq(s, i, Len(s))>>
        ELSE <<SubSeq(s, i, Least(feeds) - 1)>> \o SplitLinesFrom(s, Least(feeds) + 1)

\* s.split('\n')
SplitLines(s) == SplitLinesFrom(s, 1)

\* s.toUpperCase(), on the ASCII letters
ToUpperCase(s) == [i \in 1..Len(s) |-> IF s[i] >= 97 /\ s[i] <= 122 THEN s[i] - 32 ELSE s[i]]

StartsWith(s, p) == Len(s) >= Len(p) /\ SubSeq(s, 1, Len(p)) = p

\* s.includes(sub)
Includes(s, sub) ==
    \E i \in 1..(Len(s) - Len(sub) + 1) : SubSeq(s, i, i + Len(sub) - 1) = sub

\* s.lastIndexOf(c), 0-based, -1 when absent
LastIndexOf(s, c) ==
    LET hits == {i \in 1..Len(s) : s[i] = c}
    IN  IF hits = {} THEN -1 ELSE (CHOOSE i \in hits : \A j \in hits : j <= i) - 1

\* s.substring(from)
Substring(s, from) == SubSeq(s, from + 1, Len(s))

\* /^\d+$/.test(s)
AllDigits(s) == s # <<>> /\ \A i \in 1..Len(s) : IsDigit(s[i])

RECURSIVE DigitPrefix(_)
DigitPrefix(s) ==
    IF s # <<>> /\ IsDigit(Head(s)) THEN <<Head(s)>> \o DigitPrefix(Tail(s)) ELSE <<>>

RECURSIVE DigitsValue(_)
DigitsValue(d) ==
    IF d = <<>> THEN 0 ELSE 10 * DigitsValue(SubSeq(d, 1, Len(d) - 1)) + (d[Len(d)] - 48)

\* parseInt(s, 10)
ParseInt(s) ==
    LET t == TrimStart(s)
        signed == t # <<>> /\ Head(t) \in {43, 45}
        d == DigitPrefix(IF signed THEN Tail(t) ELSE t)
    IN  IF d = <<>> THEN NaN
        ELSE IF signed /\ Head(t) = 45 THEN Num(0 - DigitsValue(d))
        ELSE Num(DigitsValue(d))

RECURSIVE NatToString(_)
NatToString(n) ==
    IF n < 10 THEN <<48 + n>> ELSE NatToString(n \div 10) \o <<48 + (n % 10)>>

\* `${x}` of a number
NumToString(x) ==
    IF x.nan THEN <<78, 97, 78>>
    ELSE IF x.val < 0 THEN <<45>> \o NatToString(0 - x.val)
    ELSE NatToString(x.val)

RECURSIVE Concat(_)
Concat(ss) == IF ss = <<>> THEN <<>> ELSE Head(ss) \o Concat(Tail(ss))

RECURSIVE SeqsUpTo(_, _)
SeqsUpTo(S, n) ==
    IF n = 0 THEN {<<>>}
    ELSE LET shorter == SeqsUpTo(S, n - 1)
         IN  shorter \cup {Append(s, x) : s \in {t \in shorter : Len(t) = n - 1}, x \in S}

---------------------------------------------------------------------------
(* unescapeName (NameDecoder). *)

IsHexDigit(c) == IsDigit(c) \/ (c >= 65 /\ c <= 70) \/ (c >= 97 /\ c <= 102)

HexValue(c) == IF IsDigit(c) THEN c - 48 ELSE IF c >= 97 THEN c - 87 ELSE c - 55

\* a match of /\\x([0-9A-Fa-f]{2})/ starts at index i of s
EscapeAt(s, i) ==
    /\ i + 3 <= Len(s)
    /\ s[i] = 92
    /\ s[i + 1] = 120
    /\ IsHexDigit(s[i + 2])
    /\ IsHexDigit(s[i + 3])

\* the callback returning its match, as its catch branch does
DecodeEscapeKeepsMatch(h1, h2) == <<92, 120, h1, h2>>

\* the replacement callback: parseInt(hex, 16), then ' ' or String.fromCharCode
DecodeEscape(h1, h2) ==
    LET charCode == 16 * HexValue(h1) + HexValue(h2)
    IN  IF charCode = 32 THEN <<32>> ELSE <<charCode>>

RECURSIVE ReplaceEscapesFrom(_, _)
ReplaceEscapesFrom(s, i) ==
    IF i > Len(s) THEN <<>>
    ELSE IF EscapeAt(s, i)
         THEN DecodeEscape(s[i + 2], s[i + 3]) \o ReplaceEscapesFrom(s, i + 4)
         ELSE <<s[i]>> \o ReplaceEscapesFrom(s, i + 1)

\* .replace(/U+FFFD/g, <U+672A U+77E5>): the invalid-character marker becomes "unknown"
ReplaceInvalid(s) ==
    Concat([i \in 1..Len(s) |-> IF s[i] = 65533 THEN <<26410, 30693>> ELSE <<s[i]>>])

unescapeName(s) == ReplaceInvalid(ReplaceEscapesFrom(s, 1))

---------------------------------------------------------------------------
(* deduplicatePorts (Deduplicator/Normalizer). *)

PortInfo(port, pid, processName, protocol) ==
    [port |-> port, pid |-> pid, processName |-> processName, protocol |-> protocol]

\* `${p.port}-${p.protocol}`: the pid left out of the key
DedupKeyWithoutPid(p) ==
    NumToString(p.port) \o <<45>> \o p.protocol

\* `${p.port}-${p.protocol}-${p.pid}`
DedupKey(p) ==
    NumToString(p.port) \o <<45>> \o p.protocol \o <<45>> \o NumToString(p.pid)

RECURSIVE KeepFirstSeen(_, _, _)
KeepFirstSeen(ps, seen, acc) ==
    IF ps = <<>> THEN acc
    ELSE LET key == DedupKey(Head(ps))
         IN  IF key \in seen
             THEN KeepFirstSeen(Tail(ps), seen, acc)
             ELSE KeepFirstSeen(Tail(ps), seen \cup {key}, Append(acc, Head(ps)))

\* the comparator (a, b) => a.port - b.port; a NaN difference compares as equal
ComparePorts(a, b) ==
    IF a.port.nan \/ b.port.nan THEN 0 ELSE a.port.val - b.port.val

\* r placed behind every element that does not compare greater than it
RECURSIVE InsertByPort(_, _)
InsertByPort(sorted, r) ==
    IF sorted = <<>> THEN <<r>>
    ELSE IF ComparePorts(Head(sorted), r) > 0
         THEN <<r>> \o sorted
         ELSE <<Head(sorted)>> \o InsertByPort(Tail(sorted), r)

\* Array.prototype.sort with ComparePorts: a stable sort (ECMAScript 2019)
RECURSIVE SortByPort(_)
SortByPort(ps) ==
    IF ps = <<>> THEN <<>>
    ELSE InsertByPort(SortByPort(SubSeq(ps, 1, Len(ps) - 1)), ps[Len(ps)])

deduplicatePorts(ps) == SortByPort(KeepFirstSeen(ps, {}, <<>>))


---------------------------------------------------------------------------
(* getPortsWindows: one line of netstat -ano. *)

\* 'TCP'
sTCP == <<84, 67, 80>>
\* 'UDP'
sUDP == <<85, 68, 80>>
\* 'LISTENING'
sLISTENING == <<76, 73, 83, 84, 69, 78, 73, 78, 71>>
\* '(LISTEN)'
sLISTEN == <<40, 76, 73, 83, 84, 69, 78, 41>>

\* what one pass of a parsing loop does: continue, ports.push(rec), or a
\* TypeError from a method call on undefined
Skip == [kind |-> "skip"]
Throw == [kind |-> "throw"]
Push(rec) == [kind |-> "push", rec |-> rec]

\* a row of three fields passing the length test
NetstatViableFromThree(parts) == Len(parts) >= 3

\* if (parts.length < 5) continue
NetstatViable(parts) == Len(parts) >= 5

NetstatLine(line) ==
    LET parts == SplitSpaces(Trim(line))
        proto == At(parts, 0)
        localAddr == At(parts, 1)
        state == At(parts, 3)
        pidStr == At(parts, Len(parts) - 1)
        isTcp == StartsWith(ToUpperCase(proto), sTCP)
        pid == ParseInt(pidStr)
        lastColonIndex == LastIndexOf(localAddr, 58)
        port == ParseInt(Substring(localAddr, lastColonIndex + 1))
    IN  IF ~NetstatViable(parts) THEN Skip
        ELSE IF ~AllDigits(pidStr) THEN Skip
        ELSE IF isTcp /\ state = Undefined THEN Throw
        ELSE IF isTcp /\ ToUpperCase(state) # sLISTENING THEN Skip
        ELSE IF pid = Num(0) THEN Skip
        ELSE IF localAddr = Undefined THEN Throw
        ELSE IF lastColonIndex = -1 THEN Skip
        ELSE IF IsNaN(port) THEN Skip
        ELSE Push(PortInfo(port, pid, <<>>, proto))

\* the loop over the lines: the records pushed, or the exception that ended it
RECURSIVE NetstatLines(_, _)
NetstatLines(lines, acc) ==
    IF lines = <<>> THEN [threw |-> FALSE, ports |-> acc]
    ELSE LET step == NetstatLine(Head(lines))
         IN  IF step.kind = "throw" THEN [threw |-> TRUE, ports |-> acc]
             ELSE IF step.kind = "push" THEN NetstatLines(Tail(lines), Append(acc, step.rec))
             ELSE NetstatLines(Tail(lines), acc)

ParseNetstat(out) == NetstatLines(SplitLines(out), <<>>)

---------------------------------------------------------------------------
(* fillProcessNamesWindows: the pid -> image name map of tasklist /FO CSV /NH. *)

\* line.match(/"([^"]*)"/g), each match without its quotes; <<>> for null
RECURSIVE QuotedFieldsFrom(_, _, _)
QuotedFieldsFrom(s, i, acc) ==
    IF i > Len(s) THEN acc
    ELSE IF s[i] # 34 THEN QuotedFieldsFrom(s, i + 1, acc)
    ELSE LET closing == {j \in (i + 1)..Len(s) : s[j] = 34}
         IN  IF closing = {} THEN acc
             ELSE LET j == CHOOSE k \in closing : \A m \in closing : k <= m
                  IN  QuotedFieldsFrom(s, j + 1, Append(acc, SubSeq(s, i + 1, j - 1)))

QuotedFields(s) == QuotedFieldsFrom(s, 1, <<>>)

\* pidMap.set(pid, name)
MapSet(map, key, value) ==
    [k \in DOMAIN map \cup {key} |-> IF k = key THEN value ELSE map[k]]

RECURSIVE TasklistLines(_, _)
TasklistLines(lines, pidMap) ==
    IF lines = <<>> THEN pidMap
    ELSE LET parts == QuotedFields(Trim(Head(lines)))
         IN  IF Len(parts) < 2 THEN TasklistLines(Tail(lines), pidMap)
             ELSE TasklistLines(Tail(lines), MapSet(pidMap, ParseInt(parts[2]), parts[1]))

\* the records whose pid the map does not hold are dropped
fillProcessNamesDroppingUnknown(ps, err, out) ==
    LET pidMap == TasklistLines(SplitLines(out), <<>>)
    IN  IF err THEN ps
        ELSE SelectSeq([i \in 1..Len(ps) |->
                 [ps[i] EXCEPT !.processName =
                     IF ps[i].pid \in DOMAIN pidMap THEN unescapeName(pidMap[ps[i].pid]) ELSE <<0>>]],
                 LAMBDA p : p.processName # <<0>>)

\* the list the promise resolves with, given the callback's err and stdout
fillProcessNamesWindows(ps, err, out) ==
    LET pidMap == TasklistLines(SplitLines(out), <<>>)
    IN  IF err THEN ps
        ELSE [i \in 1..Len(ps) |->
                 IF ps[i].pid \in DOMAIN pidMap
                 THEN [ps[i] EXCEPT !.processName = unescapeName(pidMap[ps[i].pid])]
                 ELSE ps[i]]

---------------------------------------------------------------------------
(* getPortsUnix: one line of lsof -i -P -n. *)

LsofLine(rawLine) ==
    LET line == Trim(rawLine)
        parts == SplitSpaces(line)
        command == At(parts, 0)
        pidStr == At(parts, 1)
        nameCol == At(parts, Len(parts) - 1)
        addressCol == At(parts, Len(parts) - 2)
        address == IF Includes(nameCol, <<40>>) THEN addressCol ELSE nameCol
        isTCP == Includes(line, sTCP)
        isUDP == Includes(line, sUDP)
        lastColon == LastIndexOf(address, 58)
        port == ParseInt(Substring(address, lastColon + 1))
    IN  IF line = <<>> THEN Skip
        ELSE IF Len(parts) < 9 THEN Skip
        ELSE IF isTCP /\ ~Includes(line, sLISTEN) THEN Skip
        ELSE IF lastColon = -1 THEN Skip
        ELSE IF IsNaN(port) THEN Skip
        ELSE Push(PortInfo(port, ParseInt(pidStr), unescapeName(command),
                           IF isUDP THEN sUDP ELSE sTCP))

RECURSIVE LsofLines(_, _)
LsofLines(lines, acc) ==
    IF lines = <<>> THEN acc
    ELSE LET step == LsofLine(Head(lines))
         IN  IF step.kind = "push" THEN LsofLines(Tail(lines), Append(acc, step.rec))
             ELSE LsofLines(Tail(lines), acc)

\* for (let i = 1; ...): the first line is never read
ParseLsof(out) == LsofLines(Tail(SplitLines(out)), <<>>)

---------------------------------------------------------------------------
(* The texts the utilities may print. *)

\* the column header
\*   '  Proto  Local Address  Foreign Address  State  PID\r'
wHeader ==
    <<32, 32, 80, 114, 111, 116, 111, 32, 32, 76, 111, 99, 97, 108, 32, 65, 100, 100, 114, 101, 115, 115, 32, 32, 70, 111, 114, 101, 105, 103, 110, 32, 65, 100, 100, 114, 101, 115, 115, 32, 32, 83, 116, 97, 116, 101, 32, 32, 80, 73, 68, 13>>

\* a listening TCP socket
\*   '  TCP  0.0.0.0:443  0.0.0.0:0  LISTENING  7\r'
wTcp443 ==
    <<32, 32, 84, 67, 80, 32, 32, 48, 46, 48, 46, 48, 46, 48, 58, 52, 52, 51, 32, 32, 48, 46, 48, 46, 48, 46, 48, 58, 48, 32, 32, 76, 73, 83, 84, 69, 78, 73, 78, 71, 32, 32, 55, 13>>

\* a listening TCP socket on a lower port
\*   '  TCP  0.0.0.0:80  0.0.0.0:0  LISTENING  8\r'
wTcp80 ==
    <<32, 32, 84, 67, 80, 32, 32, 48, 46, 48, 46, 48, 46, 48, 58, 56, 48, 32, 32, 48, 46, 48, 46, 48, 46, 48, 58, 48, 32, 32, 76, 73, 83, 84, 69, 78, 73, 78, 71, 32, 32, 56, 13>>

\* the same port, protocol and pid on the IPv6 wildcard
\*   '  TCP  [::]:80  [::]:0  LISTENING  8\r'
wTcp80v6 ==
    <<32, 32, 84, 67, 80, 32, 32, 91, 58, 58, 93, 58, 56, 48, 32, 32, 91, 58, 58, 93, 58, 48, 32, 32, 76, 73, 83, 84, 69, 78, 73, 78, 71, 32, 32, 56, 13>>

\* a TCP connection that is not listening
\*   '  TCP  10.0.0.1:5000  10.0.0.2:443  ESTABLISHED  8\r'
wEstablished ==
    <<32, 32, 84, 67, 80, 32, 32, 49, 48, 46, 48, 46, 48, 46, 49, 58, 53, 48, 48, 48, 32, 32, 49, 48, 46, 48, 46, 48, 46, 50, 58, 52, 52, 51, 32, 32, 69, 83, 84, 65, 66, 76, 73, 83, 72, 69, 68, 32, 32, 56, 13>>

\* protocol and state in lower case
\*   '  tcp  0.0.0.0:81  0.0.0.0:0  listening  8\r'
wLowerCase ==
    <<32, 32, 116, 99, 112, 32, 32, 48, 46, 48, 46, 48, 46, 48, 58, 56, 49, 32, 32, 48, 46, 48, 46, 48, 46, 48, 58, 48, 32, 32, 108, 105, 115, 116, 101, 110, 105, 110, 103, 32, 32, 56, 13>>

\* a UDP row as netstat prints it: no State column
\*   '  UDP  0.0.0.0:53  *:*  9\r'
wUdp ==
    <<32, 32, 85, 68, 80, 32, 32, 48, 46, 48, 46, 48, 46, 48, 58, 53, 51, 32, 32, 42, 58, 42, 32, 32, 57, 13>>

\* a UDP row with a fourth column before the pid
\*   '  UDP  0.0.0.0:54  *:*  BOUND  9\r'
wUdpState ==
    <<32, 32, 85, 68, 80, 32, 32, 48, 46, 48, 46, 48, 46, 48, 58, 53, 52, 32, 32, 42, 58, 42, 32, 32, 66, 79, 85, 78, 68, 32, 32, 57, 13>>

\* a local address without a port number
\*   '  UDP  *:*  *:*  BOUND  9\r'
wUdpAnyPort ==
    <<32, 32, 85, 68, 80, 32, 32, 42, 58, 42, 32, 32, 42, 58, 42, 32, 32, 66, 79, 85, 78, 68, 32, 32, 57, 13>>

\* local port 0
\*   '  TCP  0.0.0.0:0  0.0.0.0:0  LISTENING  7\r'
wPort0 ==
    <<32, 32, 84, 67, 80, 32, 32, 48, 46, 48, 46, 48, 46, 48, 58, 48, 32, 32, 48, 46, 48, 46, 48, 46, 48, 58, 48, 32, 32, 76, 73, 83, 84, 69, 78, 73, 78, 71, 32, 32, 55, 13>>

\* a local port above 65535
\*   '  TCP  0.0.0.0:99999  0.0.0.0:0  LISTENING  7\r'
wPort99999 ==
    <<32, 32, 84, 67, 80, 32, 32, 48, 46, 48, 46, 48, 46, 48, 58, 57, 57, 57, 57, 57, 32, 32, 48, 46, 48, 46, 48, 46, 48, 58, 48, 32, 32, 76, 73, 83, 84, 69, 78, 73, 78, 71, 32, 32, 55, 13>>

\* a negative local port
\*   '  UDP  0.0.0.0:-5  *:*  BOUND  9\r'
wPortNegative ==
    <<32, 32, 85, 68, 80, 32, 32, 48, 46, 48, 46, 48, 46, 48, 58, 45, 53, 32, 32, 42, 58, 42, 32, 32, 66, 79, 85, 78, 68, 32, 32, 57, 13>>

\* the System Idle Process
\*   '  TCP  0.0.0.0:445  0.0.0.0:0  LISTENING  0\r'
wPidZero ==
    <<32, 32, 84, 67, 80, 32, 32, 48, 46, 48, 46, 48, 46, 48, 58, 52, 52, 53, 32, 32, 48, 46, 48, 46, 48, 46, 48, 58, 48, 32, 32, 76, 73, 83, 84, 69, 78, 73, 78, 71, 32, 32, 48, 13>>

\* a last field that is no number
\*   '  TCP  0.0.0.0:445  0.0.0.0:0  LISTENING  N/A\r'
wPidText ==
    <<32, 32, 84, 67, 80, 32, 32, 48, 46, 48, 46, 48, 46, 48, 58, 52, 52, 53, 32, 32, 48, 46, 48, 46, 48, 46, 48, 58, 48, 32, 32, 76, 73, 83, 84, 69, 78, 73, 78, 71, 32, 32, 78, 47, 65, 13>>

\* a row cut to three fields
\*   '  TCP  0.0.0.0:80  7\r'
wTruncated ==
    <<32, 32, 84, 67, 80, 32, 32, 48, 46, 48, 46, 48, 46, 48, 58, 56, 48, 32, 32, 55, 13>>

\* an empty line
\*   '\r'
wBlank ==
    <<13>>

NetstatRows ==
    {wHeader, wTcp443, wTcp80, wTcp80v6, wEstablished, wLowerCase, wUdp, wUdpState,
     wUdpAnyPort, wPort0, wPort99999, wPortNegative, wPidZero, wPidText, wTruncated, wBlank}

\* a process row
\*   '"node.exe","7","Console","1","10 K"\r'
tNode ==
    <<34, 110, 111, 100, 101, 46, 101, 120, 101, 34, 44, 34, 55, 34, 44, 34, 67, 111, 110, 115, 111, 108, 101, 34, 44, 34, 49, 34, 44, 34, 49, 48, 32, 75, 34, 13>>

\* a process row whose image name holds an escape
\*   '"my\\x20app.exe","8","Services","0","5 K"\r'
tEscaped ==
    <<34, 109, 121, 92, 120, 50, 48, 97, 112, 112, 46, 101, 120, 101, 34, 44, 34, 56, 34, 44, 34, 83, 101, 114, 118, 105, 99, 101, 115, 34, 44, 34, 48, 34, 44, 34, 53, 32, 75, 34, 13>>

\* a line without quoted fields
\*   'INFO: No tasks are running.\r'
tInfo ==
    <<73, 78, 70, 79, 58, 32, 78, 111, 32, 116, 97, 115, 107, 115, 32, 97, 114, 101, 32, 114, 117, 110, 110, 105, 110, 103, 46, 13>>

TasklistRows == {tNode, tEscaped, tInfo}

\* the column header
\*   'COMMAND  PID  USER  FD  TYPE  DEVICE  SIZE/OFF  NODE  NAME'
uHeader ==
    <<67, 79, 77, 77, 65, 78, 68, 32, 32, 80, 73, 68, 32, 32, 85, 83, 69, 82, 32, 32, 70, 68, 32, 32, 84, 89, 80, 69, 32, 32, 68, 69, 86, 73, 67, 69, 32, 32, 83, 73, 90, 69, 47, 79, 70, 70, 32, 32, 78, 79, 68, 69, 32, 32, 78, 65, 77, 69>>

\* a listening TCP socket
\*   'node  7  root  22u  IPv4  0x1a  0t0  TCP  *:3000  (LISTEN)'
uTcpListen ==
    <<110, 111, 100, 101, 32, 32, 55, 32, 32, 114, 111, 111, 116, 32, 32, 50, 50, 117, 32, 32, 73, 80, 118, 52, 32, 32, 48, 120, 49, 97, 32, 32, 48, 116, 48, 32, 32, 84, 67, 80, 32, 32, 42, 58, 51, 48, 48, 48, 32, 32, 40, 76, 73, 83, 84, 69, 78, 41>>

\* the same port, protocol and pid on IPv6
\*   'node  7  root  23u  IPv6  0x1b  0t0  TCP  *:3000  (LISTEN)'
uTcpListen6 ==
    <<110, 111, 100, 101, 32, 32, 55, 32, 32, 114, 111, 111, 116, 32, 32, 50, 51, 117, 32, 32, 73, 80, 118, 54, 32, 32, 48, 120, 49, 98, 32, 32, 48, 116, 48, 32, 32, 84, 67, 80, 32, 32, 42, 58, 51, 48, 48, 48, 32, 32, 40, 76, 73, 83, 84, 69, 78, 41>>

\* the same TCP line without (LISTEN)
\*   'node  7  root  22u  IPv4  0x1a  0t0  TCP  *:3000'
uTcpNoState ==
    <<110, 111, 100, 101, 32, 32, 55, 32, 32, 114, 111, 111, 116, 32, 32, 50, 50, 117, 32, 32, 73, 80, 118, 52, 32, 32, 48, 120, 49, 97, 32, 32, 48, 116, 48, 32, 32, 84, 67, 80, 32, 32, 42, 58, 51, 48, 48, 48>>

\* an established TCP connection
\*   'node  7  root  24u  IPv4  0x1c  0t0  TCP  10.0.0.1:3000->10.0.0.2:443  (ESTABLISHED)'
uTcpEstablished ==
    <<110, 111, 100, 101, 32, 32, 55, 32, 32, 114, 111, 111, 116, 32, 32, 50, 52, 117, 32, 32, 73, 80, 118, 52, 32, 32, 48, 120, 49, 99, 32, 32, 48, 116, 48, 32, 32, 84, 67, 80, 32, 32, 49, 48, 46, 48, 46, 48, 46, 49, 58, 51, 48, 48, 48, 45, 62, 49, 48, 46, 48, 46, 48, 46, 50, 58, 52, 52, 51, 32, 32, 40, 69, 83, 84, 65, 66, 76, 73, 83, 72, 69, 68, 41>>

\* a UDP socket
\*   'dnsd  9  root  5u  IPv4  0x2a  0t0  UDP  *:53'
uUdp ==
    <<100, 110, 115, 100, 32, 32, 57, 32, 32, 114, 111, 111, 116, 32, 32, 53, 117, 32, 32, 73, 80, 118, 52, 32, 32, 48, 120, 50, 97, 32, 32, 48, 116, 48, 32, 32, 85, 68, 80, 32, 32, 42, 58, 53, 51>>

\* a UDP socket of a command named TCPproxy
\*   'TCPproxy  9  root  6u  IPv4  0x2b  0t0  UDP  *:54'
uUdpOfTcpName ==
    <<84, 67, 80, 112, 114, 111, 120, 121, 32, 32, 57, 32, 32, 114, 111, 111, 116, 32, 32, 54, 117, 32, 32, 73, 80, 118, 52, 32, 32, 48, 120, 50, 98, 32, 32, 48, 116, 48, 32, 32, 85, 68, 80, 32, 32, 42, 58, 53, 52>>

\* a listening TCP socket of a command named UDPecho
\*   'UDPecho  8  root  3u  IPv4  0x3a  0t0  TCP  *:7  (LISTEN)'
uTcpOfUdpName ==
    <<85, 68, 80, 101, 99, 104, 111, 32, 32, 56, 32, 32, 114, 111, 111, 116, 32, 32, 51, 117, 32, 32, 73, 80, 118, 52, 32, 32, 48, 120, 51, 97, 32, 32, 48, 116, 48, 32, 32, 84, 67, 80, 32, 32, 42, 58, 55, 32, 32, 40, 76, 73, 83, 84, 69, 78, 41>>

\* a command name holding an escape
\*   'my\\x20app  8  root  4u  IPv4  0x3b  0t0  TCP  *:80  (LISTEN)'
uEscaped ==
    <<109, 121, 92, 120, 50, 48, 97, 112, 112, 32, 32, 56, 32, 32, 114, 111, 111, 116, 32, 32, 52, 117, 32, 32, 73, 80, 118, 52, 32, 32, 48, 120, 51, 98, 32, 32, 48, 116, 48, 32, 32, 84, 67, 80, 32, 32, 42, 58, 56, 48, 32, 32, 40, 76, 73, 83, 84, 69, 78, 41>>

\* a socket owned by pid 0
\*   'kernel  0  root  3u  IPv4  0x4a  0t0  UDP  *:68'
uPidZero ==
    <<107, 101, 114, 110, 101, 108, 32, 32, 48, 32, 32, 114, 111, 111, 116, 32, 32, 51, 117, 32, 32, 73, 80, 118, 52, 32, 32, 48, 120, 52, 97, 32, 32, 48, 116, 48, 32, 32, 85, 68, 80, 32, 32, 42, 58, 54, 56>>

\* a PID column that is no number
\*   'launchd  -  root  8u  IPv4  0x6a  0t0  UDP  *:137'
uPidText ==
    <<108, 97, 117, 110, 99, 104, 100, 32, 32, 45, 32, 32, 114, 111, 111, 116, 32, 32, 56, 117, 32, 32, 73, 80, 118, 52, 32, 32, 48, 120, 54, 97, 32, 32, 48, 116, 48, 32, 32, 85, 68, 80, 32, 32, 42, 58, 49, 51, 55>>

\* local port 0
\*   'ntpd  9  root  3u  IPv4  0x4b  0t0  UDP  *:0'
uPort0 ==
    <<110, 116, 112, 100, 32, 32, 57, 32, 32, 114, 111, 111, 116, 32, 32, 51, 117, 32, 32, 73, 80, 118, 52, 32, 32, 48, 120, 52, 98, 32, 32, 48, 116, 48, 32, 32, 85, 68, 80, 32, 32, 42, 58, 48>>

\* a socket address without a port number
\*   'mdns  9  root  7u  IPv4  0x5a  0t0  UDP  *:*'
uUdpAnyPort ==
    <<109, 100, 110, 115, 32, 32, 57, 32, 32, 114, 111, 111, 116, 32, 32, 55, 117, 32, 32, 73, 80, 118, 52, 32, 32, 48, 120, 53, 97, 32, 32, 48, 116, 48, 32, 32, 85, 68, 80, 32, 32, 42, 58, 42>>

\* a line of fewer than nine fields
\*   'lsof: WARNING: can't stat() fuse file system'
uWarning ==
    <<108, 115, 111, 102, 58, 32, 87, 65, 82, 78, 73, 78, 71, 58, 32, 99, 97, 110, 39, 116, 32, 115, 116, 97, 116, 40, 41, 32, 102, 117, 115, 101, 32, 102, 105, 108, 101, 32, 115, 121, 115, 116, 101, 109>>

\* an empty line
\*   ''
uBlank ==
    <<>>

LsofRows ==
    {uTcpListen, uTcpListen6, uTcpNoState, uTcpEstablished, uUdp, uUdpOfTcpName,
     uTcpOfUdpName, uEscaped, uPidZero, uPidText, uPort0, uUdpAnyPort, uWarning, uBlank}

\* the lines, each ended by a line feed
Text(lines) == Concat([i \in 1..Len(lines) |-> lines[i] \o <<10>>])

NetstatOutputs == {Text(ls) : ls \in SeqsUpTo(NetstatRows, MaxLines)}

TasklistOutputs == {Text(ls) : ls \in SeqsUpTo(TasklistRows, MaxTaskLines)}

\* nothing, or a first line (the header, or a socket where the header should be)
\* and the lines after it
LsofOutputs ==
    {<<>>} \cup {Text(<<first>> \o ls) :
                    first \in {uHeader, uUdp}, ls \in SeqsUpTo(LsofRows, MaxLines)}

---------------------------------------------------------------------------
(* getPorts: the call and the callbacks of cp.exec. *)

Platforms == {"win32", "linux", "darwin"}

Command(cmd, pid) == [cmd |-> cmd, pid |-> pid]

PortsIdle ==
    /\ pc = "idle"
    /\ stdout = <<>>
    /\ listErr = FALSE
    /\ uniquePorts = <<>>
    /\ taskOut = <<>>
    /\ taskErr = FALSE
    /\ result = <<>>

KillIdle ==
    /\ alive = {}
    /\ kpc = "idle"
    /\ kpid = 0
    /\ signalled = "none"
    /\ fallback = "none"
    /\ settled = [state |-> "pending", cause |-> "none"]

NameIdle ==
    /\ name = <<>>
    /\ once = <<>>
    /\ twice = <<>>
    /\ npc = "start"

DedupIdle ==
    /\ ports = <<>>
    /\ deduped = <<>>
    /\ dpc = "start"

InitPorts ==
    /\ platform \in Platforms
    /\ execLog = <<>>
    /\ PortsIdle /\ KillIdle /\ NameIdle /\ DedupIdle

getPorts ==
    /\ pc = "idle"
    /\ IF platform = "win32"
       THEN /\ execLog' = Append(execLog, Command("netstat -ano", 0))
            /\ pc' = "netstat"
       ELSE /\ execLog' = Append(execLog, Command("lsof -i -P -n", 0))
            /\ pc' = "lsof"
    /\ UNCHANGED <<platform, stdout, listErr, uniquePorts, taskOut, taskErr, result>>
    /\ UNCHANGED <<killVars, nameVars, dedupVars>>

\* the callback of cp.exec('netstat -ano'); an exception thrown in it is caught
\* by nobody and leaves the promise pending
NetstatCallback ==
    /\ pc = "netstat"
    /\ \E err \in BOOLEAN, out \in NetstatOutputs :
          /\ listErr' = err
          /\ stdout' = out
          /\ IF err
             THEN /\ result' = <<>>
                  /\ pc' = "resolved"
                  /\ UNCHANGED <<uniquePorts, execLog>>
             ELSE LET parsed == ParseNetstat(out)
                  IN  IF parsed.threw
                      THEN /\ pc' = "uncaught"
                           /\ UNCHANGED <<uniquePorts, execLog, result>>
                      ELSE /\ uniquePorts' = deduplicatePorts(parsed.ports)
                           /\ execLog' = Append(execLog, Command("tasklist /FO CSV /NH", 0))
                           /\ pc' = "tasklist"
                           /\ UNCHANGED result
    /\ UNCHANGED <<platform, taskOut, taskErr>>
    /\ UNCHANGED <<killVars, nameVars, dedupVars>>

\* the callback of cp.exec('tasklist /FO CSV /NH'), and the .then that resolves
TasklistCallback ==
    /\ pc = "tasklist"
    /\ \E err \in BOOLEAN, out \in TasklistOutputs :
          /\ taskErr' = err
          /\ taskOut' = out
          /\ result' = fillProcessNamesWindows(uniquePorts, err, out)
    /\ pc' = "resolved"
    /\ UNCHANGED <<platform, stdout, listErr, uniquePorts, execLog>>
    /\ UNCHANGED <<killVars, nameVars, dedupVars>>

\* the callback of cp.exec('lsof -i -P -n')
LsofCallback ==
    /\ pc = "lsof"
    /\ \E err \in BOOLEAN, out \in LsofOutputs :
          /\ listErr' = err
          /\ stdout' = out
          /\ result' = IF err THEN <<>> ELSE deduplicatePorts(ParseLsof(out))
    /\ pc' = "resolved"
    /\ UNCHANGED <<platform, uniquePorts, taskOut, taskErr, execLog>>
    /\ UNCHANGED <<killVars, nameVars, dedupVars>>

NextPorts == getPorts \/ NetstatCallback \/ TasklistCallback \/ LsofCallback

SpecPorts == InitPorts /\ [][NextPorts]_vars

---------------------------------------------------------------------------
(* killProcess: the direct signal, the fallback command and its callback. *)

Pids == 1..MaxPid

Resolved == [state |-> "resolved", cause |-> "none"]
Rejected(err) == [state |-> "rejected", cause |-> err]

\* os.platform() === 'win32' ? `taskkill /F /PID ${pid}` : `kill -9 ${pid}`
FallbackCommand(pid) ==
    IF platform = "win32" THEN Command("taskkill /F /PID", pid) ELSE Command("kill -9", pid)

\* a callback that resolves whatever err is
SettleFallbackAlwaysResolves(err) == Resolved

\* the callback of the fallback: if (err) reject(err) else resolve()
SettleFallback(err) == IF err # "none" THEN Rejected(err) ELSE Resolved

InitKill ==
    /\ platform \in Platforms
    /\ execLog = <<>>
    /\ alive \in SUBSET Pids
    /\ kpc = "idle"
    /\ kpid = 0
    /\ signalled = "none"
    /\ fallback = "none"
    /\ settled = [state |-> "pending", cause |-> "none"]
    /\ PortsIdle /\ NameIdle /\ DedupIdle

\* process.kill(pid, 'SIGKILL') returns: the signal was sent to a running process
KillSignalSent(pid) ==
    /\ pid \in alive
    /\ signalled' = "ok"
    /\ settled' = Resolved
    /\ kpc' = "done"
    /\ UNCHANGED <<execLog, fallback>>

\* process.kill throws (ESRCH: no such process; EPERM: not permitted) and the
\* catch block hands the fallback command to cp.exec
KillSignalThrows(pid) ==
    /\ signalled' = IF pid \in alive THEN "EPERM" ELSE "ESRCH"
    /\ execLog' = Append(execLog, FallbackCommand(pid))
    /\ kpc' = "fallback"
    /\ UNCHANGED <<settled, fallback>>

killProcess ==
    /\ kpc = "idle"
    /\ \E pid \in Pids :
          /\ kpid' = pid
          /\ KillSignalSent(pid) \/ KillSignalThrows(pid)
    /\ UNCHANGED <<platform, alive, portVars, nameVars, dedupVars>>

\* the callback of the fallback command: it exits 0 only for a running process
FallbackCallback ==
    /\ kpc = "fallback"
    /\ \E err \in {"none", "ESRCH", "EPERM"} :
          /\ err = "none" => kpid \in alive
          /\ err = "ESRCH" <=> kpid \notin alive
          /\ fallback' = IF err = "none" THEN "ok" ELSE err
          /\ settled' = SettleFallback(err)
    /\ kpc' = "done"
    /\ UNCHANGED <<platform, execLog, alive, kpid, signalled, portVars, nameVars, dedupVars>>

\* a process ends, by the signal or on its own
ProcessExits ==
    /\ \E p \in alive : alive' = alive \ {p}
    /\ UNCHANGED <<platform, execLog, kpc, kpid, signalled, fallback, settled>>
    /\ UNCHANGED <<portVars, nameVars, dedupVars>>

NextKill == killProcess \/ FallbackCallback \/ ProcessExits

SpecKill == InitKill /\ [][NextKill]_vars

---------------------------------------------------------------------------
(* The decoder run twice on one string. *)

\* backslash, x, 4, U+FFFD: \x44 decodes to D, and \x4 followed by D is an escape again
NameChars == {92, 120, 52, 65533}

InitName ==
    /\ name \in SeqsUpTo(NameChars, MaxNameLen)
    /\ once = <<>>
    /\ twice = <<>>
    /\ npc = "start"
    /\ platform = "linux" /\ execLog = <<>>
    /\ PortsIdle /\ KillIdle /\ DedupIdle

Decode ==
    /\ npc = "start"
    /\ once' = unescapeName(name)
    /\ npc' = "once"
    /\ UNCHANGED <<name, twice, platform, execLog, portVars, killVars, dedupVars>>

DecodeAgain ==
    /\ npc = "once"
    /\ twice' = unescapeName(once)
    /\ npc' = "twice"
    /\ UNCHANGED <<name, once, platform, execLog, portVars, killVars, dedupVars>>

NextName == Decode \/ DecodeAgain

SpecName == InitName /\ [][NextName]_vars

---------------------------------------------------------------------------
(* deduplicatePorts applied to a list of records. *)

RecordDomain ==
    {PortInfo(Num(port), Num(pid), processName, protocol) :
        port \in {8, 80}, pid \in {7, 80}, processName \in {<<>>, <<110>>},
        protocol \in {sTCP, sUDP}}

InitDedup ==
    /\ ports \in SeqsUpTo(RecordDomain, MaxRecords)
    /\ deduped = <<>>
    /\ dpc = "start"
    /\ platform = "linux" /\ execLog = <<>>
    /\ PortsIdle /\ KillIdle /\ NameIdle

Deduplicate ==
    /\ dpc = "start"
    /\ deduped' = deduplicatePorts(ports)
    /\ dpc' = "done"
    /\ UNCHANGED <<ports, platform, execLog, portVars, killVars, nameVars>>

NextDedup == Deduplicate

SpecDedup == InitDedup /\ [][NextDedup]_vars

---------------------------------------------------------------------------
(* Claims about unescapeName, under SpecName. *)

IsString(s) == \A i \in 1..Len(s) : s[i] \in Nat

\* s holds a backslash, an x and two hexadecimal digits in a row
HasEscapeSequence(s) ==
    \E i \in 1..(Len(s) - 3) :
        /\ s[i] = 92
        /\ s[i + 1] = 120
        /\ IsHexDigit(s[i + 2])
        /\ IsHexDigit(s[i + 3])

\* C7, as claimed: for every string, decoding the decoded string returns it
\* unchanged.
C7_Idempotent ==
    npc = "twice" => twice = once

\* C7, amended: decoding always returns a string; decoding the decoded string
\* returns it unchanged exactly when the decoded string holds no \xHH escape;
\* a string with no \xHH escape and no U+FFFD marker decodes to itself.
C7_IdempotentOnCleanText ==
    /\ npc # "start" => IsString(once)
    /\ npc = "twice" => IsString(twice) /\ (twice = once <=> ~HasEscapeSequence(once))
    /\ (npc # "start" /\ ~HasEscapeSequence(name) /\ \A i \in 1..Len(name) : name[i] # 65533)
           => once = name

\* an escape was decoded, and the second decoding changed nothing
C7_Witness ==
    /\ npc = "twice"
    /\ HasEscapeSequence(name)
    /\ once # name
    /\ twice = once

---------------------------------------------------------------------------
(* Claims about deduplicatePorts, under SpecDedup. *)

Triple(p) == <<p.port, p.protocol, p.pid>>

\* the index in ps of the first record with the triple of p
FirstIndex(ps, p) ==
    CHOOSE i \in 1..Len(ps) :
        /\ Triple(ps[i]) = Triple(p)
        /\ \A j \in 1..(i - 1) : Triple(ps[j]) # Triple(p)

\* C6: the output of deduplicatePorts holds no two records with one (port,
\* protocol, pid) triple, holds for each triple of the input the first input
\* record with that triple, and is sorted by ascending port, records of equal
\* port in their input order.
C6_DedupSortedStable ==
    dpc = "done" =>
        /\ \A i, j \in 1..Len(deduped) : i # j => Triple(deduped[i]) # Triple(deduped[j])
        /\ \A k \in 1..Len(ports) :
               \E i \in 1..Len(deduped) : deduped[i] = ports[FirstIndex(ports, ports[k])]
        /\ \A i, j \in 1..Len(deduped) :
               i < j =>
                   /\ deduped[i].port.val <= deduped[j].port.val
                   /\ deduped[i].port.val = deduped[j].port.val
                          => FirstIndex(ports, deduped[i]) < FirstIndex(ports, deduped[j])

\* the second of two records with one triple was dropped, and a later record of
\* a lower port moved to the front
C6_Witness ==
    /\ dpc = "done"
    /\ Len(ports) = 3
    /\ Triple(ports[1]) = Triple(ports[2])
    /\ ports[1].processName # ports[2].processName
    /\ ports[3].port.val < ports[1].port.val
    /\ deduped = <<ports[3], ports[1]>>

---------------------------------------------------------------------------
(* Claims about getPorts, under SpecPorts. *)

Settled == pc = "resolved"
OnWindows == platform = "win32"

\* the address ends in a colon and an integer, as parseInt reads one
EndsInPort(address) ==
    /\ LastIndexOf(address, 58) # -1
    /\ ~IsNaN(ParseInt(Substring(address, LastIndexOf(address, 58) + 1)))

PortOf(address) == ParseInt(Substring(address, LastIndexOf(address, 58) + 1))

Fields(line) == SplitSpaces(Trim(line))

\* C1: getPorts never fails: whatever the utilities report, the promise is
\* never rejected and no exception escapes a callback, it resolves with a list
\* of records, and with the empty list when netstat / lsof reported an error.
C1_EnumerationNeverFails ==
    /\ pc \in {"idle", "netstat", "tasklist", "lsof", "resolved"}
    /\ Settled =>
           \A i \in 1..Len(result) :
               DOMAIN result[i] = {"port", "pid", "processName", "protocol"}
    /\ (Settled /\ listErr) => result = <<>>

\* the listing utility reported an error although it printed a socket
C1_Witness ==
    /\ Settled
    /\ listErr
    /\ stdout \in {Text(<<wTcp443>>), Text(<<uHeader, uTcpListen>>)}
    /\ result = <<>>

\* C3: every record getPorts returns has a pid that is an integer >= 1.
C3_PidAtLeastOne ==
    Settled => \A i \in 1..Len(result) : ~result[i].pid.nan /\ result[i].pid.val >= 1

\* C4: every record getPorts returns has a port in 1..65535.
C4_PortInRange ==
    Settled =>
        \A i \in 1..Len(result) :
            ~result[i].port.nan /\ result[i].port.val >= 1 /\ result[i].port.val <= 65535

\* C5: every record getPorts returns has the protocol TCP or the protocol UDP.
C5_ProtocolTcpOrUdp ==
    Settled => \A i \in 1..Len(result) : result[i].protocol \in {sTCP, sUDP}

\* a netstat row: first field UDP, last field an all-digit pid other than 0,
\* second field ending in a port
IsUdpRow(parts) ==
    /\ Len(parts) >= 3
    /\ parts[1] = sUDP
    /\ AllDigits(parts[Len(parts)])
    /\ ParseInt(parts[Len(parts)]) # Num(0)
    /\ EndsInPort(parts[2])

\* C8: on Windows every UDP row of the netstat output, with or without a
\* State column, yields a record of its port, its pid and the protocol UDP.
C8_UdpRowsKept ==
    (Settled /\ OnWindows /\ ~listErr) =>
        \A k \in 1..Len(SplitLines(stdout)) :
            LET parts == Fields(SplitLines(stdout)[k])
            IN  IsUdpRow(parts) =>
                    \E i \in 1..Len(result) :
                        /\ result[i].port = PortOf(parts[2])
                        /\ result[i].pid = ParseInt(parts[Len(parts)])
                        /\ result[i].protocol = sUDP

\* the socket-address token of an lsof line
AddressToken(parts) ==
    IF Includes(parts[Len(parts)], <<40>>) THEN parts[Len(parts) - 1] ELSE parts[Len(parts)]

\* C9: on Unix, of the data lines with at least nine fields and a socket address
\* ending in a port, a line whose NODE column is TCP yields a record only if it
\* holds '(LISTEN)', and a line whose NODE column is UDP always yields a record
\* of its port and pid with the protocol UDP.
C9_TcpListeningUdpAlways ==
    (Settled /\ ~OnWindows /\ ~listErr) =>
        \A k \in 2..Len(SplitLines(stdout)) :
            LET line == SplitLines(stdout)[k]
                parts == Fields(line)
            IN  (Len(parts) >= 9 /\ EndsInPort(AddressToken(parts))) =>
                    /\ (parts[8] = sTCP /\ LsofLine(line).kind = "push")
                           => Includes(line, sLISTEN)
                    /\ parts[8] = sUDP =>
                           \E i \in 1..Len(result) :
                               /\ result[i].port = PortOf(AddressToken(parts))
                               /\ result[i].pid = ParseInt(parts[2])
                               /\ result[i].protocol = sUDP

Triples(ps) == [i \in 1..Len(ps) |-> Triple(ps[i])]

Netstat == Command("netstat -ano", 0)
Tasklist == Command("tasklist /FO CSV /NH", 0)

\* C10: on Windows the (port, protocol, pid) triples getPorts returns are those
\* of the list handed to name resolution, whatever tasklist reports; when
\* tasklist fails every returned name is empty; and tasklist is run only after
\* netstat succeeded and its records were deduplicated and sorted.
C10_NameResolutionOnlyNames ==
    /\ (Settled /\ OnWindows /\ ~listErr) =>
           /\ Triples(result) = Triples(uniquePorts)
           /\ taskErr => \A i \in 1..Len(result) : result[i].processName = <<>>
           /\ execLog = <<Netstat, Tasklist>>
    /\ (\E i \in 1..Len(execLog) : execLog[i] = Tasklist) =>
           /\ execLog = <<Netstat, Tasklist>>
           /\ ~listErr
           /\ pc \in {"tasklist", "resolved"}
           /\ \A i, j \in 1..Len(uniquePorts) :
                  i < j => /\ Triple(uniquePorts[i]) # Triple(uniquePorts[j])
                           /\ uniquePorts[i].port.val <= uniquePorts[j].port.val

\* tasklist named one of two returned records and not the other
C10_Witness ==
    /\ Settled /\ OnWindows /\ ~listErr /\ ~taskErr
    /\ Len(result) = 2
    /\ result[1].processName # <<>>
    /\ result[2].processName = <<>>

---------------------------------------------------------------------------
(* Claims about killProcess, under SpecKill. *)

SignalFailed == signalled \in {"ESRCH", "EPERM"}

\* C2: the direct signal comes first; the fallback command is issued exactly
\* when the signal failed, once, for the platform and the pid; the promise
\* resolves when either path succeeded and is rejected, with the error the
\* fallback reported, only when both failed; a call for a pid that did not
\* exist ends rejected after both paths.
C2_FallbackOnlyAfterSignalFailed ==
    /\ (execLog # <<>>) <=> SignalFailed
    /\ execLog \in {<<>>, <<FallbackCommand(kpid)>>}
    /\ fallback # "none" => SignalFailed
    /\ settled.state = "resolved" <=> (signalled = "ok" \/ fallback = "ok")
    /\ settled.state = "rejected" <=> (SignalFailed /\ fallback \in {"ESRCH", "EPERM"})
    /\ settled.state = "rejected" => settled.cause = fallback
    /\ kpc = "done" <=> settled.state # "pending"
    /\ (kpc = "done" /\ signalled = "ESRCH") =>
           /\ settled = Rejected("ESRCH")
           /\ Len(execLog) = 1

\* a call for a pid that did not exist was rejected after the fallback failed
C2_Witness ==
    /\ kpc = "done"
    /\ signalled = "ESRCH"
    /\ fallback = "ESRCH"
    /\ settled.state = "rejected"
    /\ execLog = <<Command("kill -9", kpid)>>

===========================================================================
